---------------------------- MODULE Spec2Model ----------------------------
(***************************************************************************)
(* Model of scripts/send_wecom_digest.py: the WeCom digest builder         *)
(* (pick_ai_items, _header_lines, _item_lines, build_digest_markdown) and  *)
(* the delivery call (send_wecom_markdown).                                *)
(*                                                                         *)
(* A Python str is a sequence of Unicode code points (naturals), so that   *)
(* len() counts characters and encode("utf-8") counts bytes, as in the     *)
(* code.  A JSON value is a tagged record [t |-> type, v |-> payload].     *)
(***************************************************************************)
EXTENDS Integers, Sequences, FiniteSets, TLC

VARIABLES
    pc,           \* position of the running function
    snapshot,     \* argument: the parsed snapshot (a dict: key -> JSON value)
    keyword,      \* argument of build_digest_markdown
    top_n,        \* argument of build_digest_markdown
    byte_limit,   \* argument of build_digest_markdown
    site_url,     \* argument of build_digest_markdown (None or a str)
    items,        \* local of build_digest_markdown / result of pick_ai_items
    total,        \* local: len(items)
    shown,        \* local
    title_limit,  \* local
    header,       \* local: list of header lines
    min_items,    \* local: the floor of shown
    content,      \* local: the candidate rendered by the current iteration
    retries,      \* number of `continue`s the while loop has executed
    result,       \* value returned by the function that ran (or None)
    webhook_url,  \* argument of send_wecom_markdown
    timeout,      \* argument of send_wecom_markdown
    resp,         \* send_wecom_markdown: the HTTP response (or None)
    data,         \* send_wecom_markdown: resp.json()
    posts,        \* the requests.post calls issued so far, in order
    raised        \* exception that left send_wecom_markdown (or None)

\* The state send_wecom_markdown works on.
sendVars == <<webhook_url, timeout, resp, data, posts, raised>>

\* The arguments of build_digest_markdown.
buildArgs == <<snapshot, keyword, top_n, byte_limit, site_url>>

\* The locals of build_digest_markdown.
buildLocals == <<items, total, shown, title_limit, header, min_items, retries>>

vars == <<pc, buildArgs, buildLocals, content, result, sendVars>>

-----------------------------------------------------------------------------
(* Bounds of the model. *)

\* Largest number of entries in a snapshot's item list.
MaxItems == 4
\* top_n ranges over -1 .. MaxTopN.
MaxTopN == 5

-----------------------------------------------------------------------------
(* Python values. *)

\* Python's None / an absent value.  Never a valid str (code points are >= 0).
None == <<-1>>

JNull == [t |-> "null", v |-> 0]
JNum(n) == [t |-> "num", v |-> n]
\* A float, held in tenths: JFloat(5) is 0.5, JFloat(-15) is -1.5.
JFloat(tenths) == [t |-> "float", v |-> tenths]
JBool(b) == [t |-> "bool", v |-> b]
JStr(s) == [t |-> "str", v |-> s]
JList(l) == [t |-> "list", v |-> l]
JDict(d) == [t |-> "dict", v |-> d]

\* The empty dict {} (a function with an empty domain).
EmptyDict == [k \in {} |-> None]

\* bool(x) of a JSON value, as Python's `or` tests it.
Truthy(x) ==
    CASE x.t = "null" -> FALSE
      [] x.t = "bool" -> x.v
      [] x.t = "num" -> x.v # 0
      [] x.t = "float" -> x.v # 0
      [] x.t = "str" -> x.v # <<>>
      [] x.t = "list" -> x.v # <<>>
      [] x.t = "dict" -> DOMAIN x.v # {}

\* d.get(k): the value under k, or None (here JNull) when k is absent.
DictGet(d, k) == IF k \in DOMAIN d THEN d[k] ELSE JNull

\* a or b
PyOr(a, b) == IF Truthy(a) THEN a ELSE b

\* isinstance(x, list), isinstance(x, dict)
IsList(x) == x.t = "list"
IsDict(x) == x.t = "dict"

-----------------------------------------------------------------------------
(* Python strings. *)

\* str.isspace() code points, the ones str.strip() removes.
Whitespace ==
    {9, 10, 11, 12, 13, 28, 29, 30, 31, 32, 133, 160, 5760} \cup (8192..8202)
        \cup {8232, 8233, 8239, 8287, 12288}

\* s.strip()
RECURSIVE LStrip(_)
LStrip(s) ==
    IF s # <<>> /\ Head(s) \in Whitespace THEN LStrip(Tail(s)) ELSE s

RECURSIVE RStrip(_)
RStrip(s) ==
    IF s # <<>> /\ s[Len(s)] \in Whitespace
    THEN RStrip(SubSeq(s, 1, Len(s) - 1))
    ELSE s

Strip(s) == RStrip(LStrip(s))

\* s.replace("\n", " ")
ReplaceNewlines(s) == [i \in 1..Len(s) |-> IF s[i] = 10 THEN 32 ELSE s[i]]

\* Number of bytes UTF-8 uses for one code point.
Utf8Width(c) ==
    IF c < 128 THEN 1 ELSE IF c < 2048 THEN 2 ELSE IF c < 65536 THEN 3 ELSE 4

\* len(s.encode("utf-8"))
\* (the sum of the widths of s[lo..hi], by halves)
RECURSIVE Utf8LenRange(_, _, _)
Utf8LenRange(s, lo, hi) ==
    IF lo > hi THEN 0
    ELSE IF lo = hi THEN Utf8Width(s[lo])
    ELSE LET mid == (lo + hi) \div 2
         IN  Utf8LenRange(s, lo, mid) + Utf8LenRange(s, mid + 1, hi)

Utf8Len(s) == Utf8LenRange(s, 1, Len(s))

\* "\n".join(lines)
RECURSIVE Join(_)
Join(lines) ==
    IF lines = <<>> THEN <<>>
    ELSE IF Len(lines) = 1 THEN lines[1]
    ELSE lines[1] \o <<10>> \o Join(Tail(lines))

\* str(n) / f"{n}" of an int
RECURSIVE NatToStr(_)
NatToStr(n) ==
    IF n < 10 THEN <<48 + n>> ELSE NatToStr(n \div 10) \o <<48 + (n % 10)>>

IntToStr(n) == IF n < 0 THEN <<45>> \o NatToStr(-n) ELSE NatToStr(n)

\* "…"
Ellipsis == <<8230>>

\* shorten(text, limit)
shorten(text, limit) ==
    LET s == Strip(ReplaceNewlines(text))
    IN  IF Len(s) <= limit THEN s
        ELSE IF limit <= 1 THEN Ellipsis
        ELSE SubSeq(s, 1, limit - 1) \o Ellipsis

-----------------------------------------------------------------------------
(* parse_iso_to_bj.                                                        *)
(* datetime.fromisoformat is modelled on the extended format with an       *)
(* explicit offset, YYYY-MM-DDTHH:MM:SS+HH:MM (what a trailing Z becomes   *)
(* after the replace); every other string is a parse failure.  The inputs  *)
(* the model draws are strings of that format or strings Python rejects.   *)

\* iso_str.replace("Z", "+00:00")
RECURSIVE ReplaceZ(_)
ReplaceZ(s) ==
    IF s = <<>> THEN <<>>
    ELSE IF Head(s) = 90 THEN <<43, 48, 48, 58, 48, 48>> \o ReplaceZ(Tail(s))
    ELSE <<Head(s)>> \o ReplaceZ(Tail(s))

IsDigit(c) == c \in 48..57

\* The number written by the n digits of s starting at position i.
RECURSIVE DigitsAt(_, _, _)
DigitsAt(s, i, n) ==
    IF n = 0 THEN 0 ELSE DigitsAt(s, i, n - 1) * 10 + (s[i + n - 1] - 48)

IsLeap(y) == (y % 4 = 0 /\ y % 100 # 0) \/ y % 400 = 0

DaysInMonth(y, m) ==
    IF m = 2 THEN (IF IsLeap(y) THEN 29 ELSE 28)
    ELSE IF m \in {4, 6, 9, 11} THEN 30 ELSE 31

\* datetime.fromisoformat(s): [ok |-> FALSE] when it raises ValueError.
FromIsoFormat(s) ==
    LET shape ==
            /\ Len(s) = 25
            /\ \A i \in {1, 2, 3, 4, 6, 7, 9, 10, 12, 13, 15, 16, 18, 19,
                         21, 22, 24, 25} : IsDigit(s[i])
            /\ s[5] = 45 /\ s[8] = 45 /\ s[11] = 84
            /\ s[14] = 58 /\ s[17] = 58 /\ s[23] = 58
            /\ s[20] \in {43, 45}
        y == DigitsAt(s, 1, 4)
        mo == DigitsAt(s, 6, 2)
        d == DigitsAt(s, 9, 2)
        h == DigitsAt(s, 12, 2)
        mi == DigitsAt(s, 15, 2)
        sec == DigitsAt(s, 18, 2)
        oh == DigitsAt(s, 21, 2)
        om == DigitsAt(s, 24, 2)
    IN  IF /\ shape
           /\ y >= 1 /\ mo \in 1..12 /\ d >= 1 /\ d <= DaysInMonth(y, mo)
           /\ h <= 23 /\ mi <= 59 /\ sec <= 59 /\ oh <= 23 /\ om <= 59
        THEN [ok |-> TRUE, y |-> y, mo |-> mo, d |-> d, h |-> h, mi |-> mi,
              off |-> (IF s[20] = 45 THEN -1 ELSE 1) * (oh * 60 + om)]
        ELSE [ok |-> FALSE]

NextDay(dt) ==
    IF dt.d < DaysInMonth(dt.y, dt.mo) THEN [dt EXCEPT !.d = dt.d + 1]
    ELSE IF dt.mo < 12 THEN [dt EXCEPT !.d = 1, !.mo = dt.mo + 1]
    ELSE [dt EXCEPT !.d = 1, !.mo = 1, !.y = dt.y + 1]

PrevDay(dt) ==
    IF dt.d > 1 THEN [dt EXCEPT !.d = dt.d - 1]
    ELSE IF dt.mo > 1
    THEN [dt EXCEPT !.d = DaysInMonth(dt.y, dt.mo - 1), !.mo = dt.mo - 1]
    ELSE [dt EXCEPT !.d = 31, !.mo = 12, !.y = dt.y - 1]

\* Offset of DEFAULT_TZ (Asia/Shanghai) from UTC, in minutes.
BjOffsetMinutes == 480

\* dt.astimezone(DEFAULT_TZ); ok is FALSE when the date leaves year 1..9999.
AsTimezoneBj(dt) ==
    LET minutes == dt.h * 60 + dt.mi - dt.off + BjOffsetMinutes
        days == minutes \div 1440
        rest == minutes % 1440
        day == CASE days = -1 -> PrevDay(dt)
                 [] days = 0 -> dt
                 [] days = 1 -> NextDay(dt)
                 [] OTHER -> NextDay(NextDay(dt))
    IN  [day EXCEPT !.h = rest \div 60, !.mi = rest % 60,
                    !.ok = day.y >= 1 /\ day.y <= 9999]

\* Two-digit, zero-padded decimal (%m, %d, %H, %M).
Pad2(n) == <<48 + (n \div 10), 48 + (n % 10)>>

\* dt.strftime("%m-%d %H:%M")
Strftime(dt) ==
    Pad2(dt.mo) \o <<45>> \o Pad2(dt.d) \o <<32>> \o Pad2(dt.h) \o <<58>>
        \o Pad2(dt.mi)

\* "--:--"
NoTime == <<45, 45, 58, 45, 45>>

parse_iso_to_bj(iso_str) ==
    IF iso_str = None \/ iso_str = <<>> THEN NoTime
    ELSE LET dt == FromIsoFormat(ReplaceZ(iso_str))
         IN  IF ~dt.ok THEN iso_str
             ELSE LET bj == AsTimezoneBj(dt)
                  IN  IF bj.ok THEN Strftime(bj) ELSE iso_str

-----------------------------------------------------------------------------
(* pick_ai_items. *)

\* [it for it in raw if isinstance(it, dict)]
RECURSIVE DictEntries(_)
DictEntries(l) ==
    IF l = <<>> THEN <<>>
    ELSE IF IsDict(Head(l)) THEN <<Head(l)>> \o DictEntries(Tail(l))
    ELSE DictEntries(Tail(l))

\* Mutation: items is consulted before items_ai.
PickPrefersItems(snap) ==
    LET raw == PyOr(PyOr(DictGet(snap, "items"), DictGet(snap, "items_ai")),
                    JList(<<>>))
    IN  IF ~IsList(raw) THEN <<>> ELSE DictEntries(raw.v)

pick_ai_items(snap) ==
    LET raw == PyOr(PyOr(DictGet(snap, "items_ai"), DictGet(snap, "items")),
                    JList(<<>>))
    IN  IF ~IsList(raw) THEN <<>> ELSE DictEntries(raw.v)

-----------------------------------------------------------------------------
(* Dicts whose values are strings (the Item records). *)

\* item.get(k): the str under k, or None
StrGet(d, k) == IF k \in DOMAIN d THEN d[k] ELSE None

\* a or b, for a str or None a
StrOr(a, b) == IF a # None /\ a # <<>> THEN a ELSE b

\* str(x) of a JSON str or int
PyStr(x) == IF x.t = "str" THEN x.v ELSE IntToStr(x.v)

\* items[:n]
Slice(l, n) ==
    IF n >= 0
    THEN SubSeq(l, 1, IF n < Len(l) THEN n ELSE Len(l))
    ELSE SubSeq(l, 1, IF Len(l) + n > 0 THEN Len(l) + n ELSE 0)

-----------------------------------------------------------------------------
(* _header_lines and _item_lines. *)

\* "## AI 新闻日报（近24小时）"
HeaderTitle ==
    <<35, 35, 32, 65, 73, 32, 26032, 38395, 26085, 25253, 65288, 36817, 50,
      52, 23567, 26102, 65289>>
\* "> 生成时间："
GeneratedPrefix == <<62, 32, 29983, 25104, 26102, 38388, 65306>>
\* "（北京时间）"
GeneratedSuffix == <<65288, 21271, 20140, 26102, 38388, 65289>>
\* "> AI 相关条数："
CountPrefix == <<62, 32, 65, 73, 32, 30456, 20851, 26465, 25968, 65306>>
\* "> 查看详情：["
DetailPrefix == <<62, 32, 26597, 30475, 35814, 24773, 65306, 91>>
\* "> 其余 "
RemarkPrefix == <<62, 32, 20854, 20313, 32>>
\* " 条请查看页面或仓库数据"
RemarkSuffix ==
    <<32, 26465, 35831, 26597, 30475, 39029, 38754, 25110, 20179, 24211,
      25968, 25454>>
\* "Untitled"
Untitled == <<85, 110, 116, 105, 116, 108, 101, 100>>
\* "-"
Dash == <<45>>

_header_lines(snap, kw, tot, site) ==
    LET generated_at ==
            parse_iso_to_bj(PyStr(PyOr(DictGet(snap, "generated_at"),
                                       JStr(<<>>))))
    IN  (IF kw # <<>> THEN <<kw>> ELSE <<>>)
        \o <<HeaderTitle>>
        \o <<GeneratedPrefix \o generated_at \o GeneratedSuffix>>
        \o <<CountPrefix \o IntToStr(tot)>>
        \o (IF site # None /\ site # <<>>
            THEN <<DetailPrefix \o site \o <<93, 40>> \o site \o <<41>>>>
            ELSE <<>>)
        \o << <<>> >>

\* The two lines _item_lines appends for one item, numbered idx.
ItemBlock(item, idx, tlimit) ==
    LET title == shorten(StrOr(StrGet(item, "title_bilingual"),
                               StrOr(StrGet(item, "title"), Untitled)),
                         tlimit)
        url == Strip(StrOr(StrGet(item, "url"), <<>>))
        site == StrOr(Strip(StrOr(StrGet(item, "site_name"), <<>>)), Dash)
        source == StrOr(Strip(StrOr(StrGet(item, "source"), <<>>)), Dash)
        published == parse_iso_to_bj(StrOr(StrGet(item, "published_at"), <<>>))
    IN  << (IF url # <<>>
            THEN IntToStr(idx) \o <<46, 32, 91>> \o title \o <<93, 40>> \o url
                 \o <<41>>
            ELSE IntToStr(idx) \o <<46, 32>> \o title),
           <<62, 32>> \o site \o <<47>> \o source \o <<32, 183, 32>>
               \o published >>

\* The loop of _item_lines over enumerate(l, idx).
RECURSIVE ItemLinesFrom(_, _, _)
ItemLinesFrom(l, idx, tlimit) ==
    IF l = <<>> THEN <<>>
    ELSE ItemBlock(Head(l).v, idx, tlimit)
         \o ItemLinesFrom(Tail(l), idx + 1, tlimit)

_item_lines(its, n, tlimit) == ItemLinesFrom(Slice(its, n), 1, tlimit)

-----------------------------------------------------------------------------
(* Inputs of the model. *)

\* "AI新闻雷达", the default keyword
DefaultKeyword == <<65, 73, 26032, 38395, 38647, 36798>>
\* " K", a keyword that starts with a space
SpacedKeyword == <<32, 75>>

Keywords == {<<>>, DefaultKeyword, SpacedKeyword}

DEFAULT_BYTE_LIMIT == 3800

TopNs == -1..MaxTopN

ByteLimits == {0, 200, 330, 600, DEFAULT_BYTE_LIMIT}

\* "https://ai.example.org"
SiteUrl ==
    <<104, 116, 116, 112, 115, 58, 47, 47, 97, 105, 46, 101, 120, 97, 109,
      112, 108, 101, 46, 111, 114, 103>>

SiteUrls == {None, SiteUrl}

\* s repeated n times
RECURSIVE Repeat(_, _)
Repeat(s, n) == IF n = 0 THEN <<>> ELSE s \o Repeat(s, n - 1)

\* "https://example.com/"
UrlBase ==
    <<104, 116, 116, 112, 115, 58, 47, 47, 101, 120, 97, 109, 112, 108, 101,
      46, 99, 111, 109, 47>>
\* "2026-02-23T01:00:00Z"
Stamp1 ==
    <<50, 48, 50, 54, 45, 48, 50, 45, 50, 51, 84, 48, 49, 58, 48, 48, 58, 48,
      48, 90>>
\* "2026-12-31T18:30:00Z"
Stamp2 ==
    <<50, 48, 50, 54, 45, 49, 50, 45, 51, 49, 84, 49, 56, 58, 51, 48, 58, 48,
      48, 90>>
\* "not-a-date"
NotADate == <<110, 111, 116, 45, 97, 45, 100, 97, 116, 101>>

\* An item with a 200-character title ("超长标题" * 50).
ItemLong(i) ==
    JDict([title_bilingual |-> Repeat(<<36229, 38271, 26631, 39064>>, 50),
           url |-> UrlBase \o IntToStr(i),
           site_name |-> <<83, 105, 116, 101>>,
           source |-> <<115, 114, 99>>,
           published_at |-> Stamp1])

\* An item with a short title ("标题<i>").
ItemShort(i) ==
    JDict([title |-> <<26631, 39064>> \o IntToStr(i),
           url |-> UrlBase \o IntToStr(i),
           site_name |-> <<78, 101, 119, 115, 78, 111, 119>>,
           source |-> <<100, 101, 109, 111>>,
           published_at |-> Stamp2])

\* An item with an empty title_bilingual, a title " Multi\nline  ", a blank
\* url, no source and an unparsable published_at.
ItemMessy ==
    JDict([title_bilingual |-> <<>>,
           title |-> <<32, 77, 117, 108, 116, 105, 10, 108, 105, 110, 101, 32,
                       32>>,
           url |-> <<32, 32>>,
           site_name |-> <<32, 83, 105, 116, 101, 32>>,
           published_at |-> NotADate])

\* An item with no field at all.
ItemBare == JDict(EmptyDict)

\* A list entry that is not a dict.
Junk == JStr(<<106, 117, 110, 107>>)

\* The i-th entry of the two families of item lists.
PoolA(i) ==
    CASE i % 4 = 1 -> ItemLong(i)
      [] i % 4 = 2 -> ItemLong(i)
      [] i % 4 = 3 -> ItemShort(i)
      [] OTHER -> ItemMessy

PoolB(i) ==
    CASE i % 4 = 1 -> ItemBare
      [] i % 4 = 2 -> Junk
      [] i % 4 = 3 -> ItemShort(i)
      [] OTHER -> ItemLong(i)

BuildSnapshots ==
    {[generated_at |-> JStr(Stamp1),
      items_ai |-> JList([i \in 1..n |-> PoolA(i)])] : n \in 0..MaxItems}
    \cup
    {[items |-> JList([i \in 1..n |-> PoolB(i)])] : n \in 0..MaxItems}

-----------------------------------------------------------------------------
(* build_digest_markdown. *)

TITLE_LIMIT_START == 46
\* Mutation: the loop stops shortening titles at 30 characters.
TitleLimitFloorHigh == 20 + 10
TITLE_LIMIT_FLOOR == 20
\* Mutation: titles are shortened by 2 characters a retry.
TitleLimitStepTwo == 4 - 2
TITLE_LIMIT_STEP == 4
FALLBACK_SHOWN == 3

Min(a, b) == IF a < b THEN a ELSE b
Max(a, b) == IF a > b THEN a ELSE b

\* Mutation: line 90 is missing, a top_n <= 0 shows nothing.
InitialShownNoFallback(n, tot) == Min(Max(n, 0), tot)

\* The shown-count the loop starts with.
InitialShown(n, tot) ==
    LET s == Min(Max(n, 0), tot)
    IN  IF s > 0 THEN s ELSE Min(tot, FALLBACK_SHOWN)

\* Mutation: the remark states the total, not the number left out.
RenderRemarkCountsTotal(hdr, its, tot, shw, tlimit) ==
    LET body == _item_lines(its, shw, tlimit)
        remark ==
            IF tot > shw
            THEN << <<>>, RemarkPrefix \o IntToStr(tot) \o RemarkSuffix >>
            ELSE <<>>
    IN  Strip(Join(hdr \o body \o remark))

\* The candidate one iteration renders.
RenderContent(hdr, its, tot, shw, tlimit) ==
    LET body == _item_lines(its, shw, tlimit)
        remark ==
            IF tot > shw
            THEN << <<>>, RemarkPrefix \o IntToStr(tot - shw) \o RemarkSuffix >>
            ELSE <<>>
    IN  Strip(Join(hdr \o body \o remark))

\* No response has arrived; no exception was raised.
NoResponse == [status |-> 0, body |-> JNull]
NoException == [type |-> "none", arg |-> JNull]

\* No local of build_digest_markdown is set yet.
NoBuildLocals ==
    /\ items = <<>>
    /\ total = 0
    /\ shown = 0
    /\ title_limit = 0
    /\ header = <<>>
    /\ min_items = 0
    /\ retries = 0

\* send_wecom_markdown is not running.
NoSend ==
    /\ webhook_url = None
    /\ timeout = 0
    /\ resp = NoResponse
    /\ data = JNull
    /\ posts = <<>>
    /\ raised = NoException

InitBuild ==
    /\ pc = "build"
    /\ snapshot \in BuildSnapshots
    /\ keyword \in Keywords
    /\ top_n \in TopNs
    /\ byte_limit \in ByteLimits
    /\ site_url \in SiteUrls
    /\ NoBuildLocals
    /\ content = <<>>
    /\ result = None
    /\ NoSend

BuildStart ==
    /\ pc = "build"
    /\ LET its == pick_ai_items(snapshot)
       IN  /\ items' = its
           /\ total' = Len(its)
           /\ shown' = InitialShown(top_n, Len(its))
           /\ title_limit' = TITLE_LIMIT_START
           /\ header' = _header_lines(snapshot, keyword, Len(its), site_url)
           /\ min_items' = IF Len(its) # 0 THEN 1 ELSE 0
    /\ pc' = "render"
    /\ UNCHANGED <<buildArgs, content, retries, result, sendVars>>

Render ==
    /\ pc = "render"
    /\ content' = RenderContent(header, items, total, shown, title_limit)
    /\ pc' = "check"
    /\ UNCHANGED <<buildArgs, items, total, shown, title_limit, header,
                   min_items, retries, result, sendVars>>

ReturnFits ==
    /\ pc = "check"
    /\ Utf8Len(content) <= byte_limit
    /\ result' = <<content, shown>>
    /\ pc' = "done"
    /\ UNCHANGED <<buildArgs, items, total, shown, title_limit, header,
                   min_items, content, retries, sendVars>>

DecShown ==
    /\ pc = "check"
    /\ ~(Utf8Len(content) <= byte_limit)
    /\ shown > min_items
    /\ shown' = shown - 1
    /\ retries' = retries + 1
    /\ pc' = "render"
    /\ UNCHANGED <<buildArgs, items, total, title_limit, header, min_items,
                   content, result, sendVars>>

\* Mutation: titles are shortened without waiting for shown to reach its
\* floor.
DecTitleBeforeFloor ==
    /\ pc = "check"
    /\ ~(Utf8Len(content) <= byte_limit)
    /\ title_limit > TITLE_LIMIT_FLOOR
    /\ title_limit' = title_limit - TITLE_LIMIT_STEP
    /\ retries' = retries + 1
    /\ pc' = "render"
    /\ UNCHANGED <<buildArgs, items, total, shown, header, min_items, content,
                   result, sendVars>>

DecTitle ==
    /\ pc = "check"
    /\ ~(Utf8Len(content) <= byte_limit)
    /\ ~(shown > min_items)
    /\ title_limit > TITLE_LIMIT_FLOOR
    /\ title_limit' = title_limit - TITLE_LIMIT_STEP
    /\ retries' = retries + 1
    /\ pc' = "render"
    /\ UNCHANGED <<buildArgs, items, total, shown, header, min_items, content,
                   result, sendVars>>

GiveUp ==
    /\ pc = "check"
    /\ ~(Utf8Len(content) <= byte_limit)
    /\ ~(shown > min_items)
    /\ ~(title_limit > TITLE_LIMIT_FLOOR)
    /\ result' = <<content, shown>>
    /\ pc' = "done"
    /\ UNCHANGED <<buildArgs, items, total, shown, title_limit, header,
                   min_items, content, retries, sendVars>>

Next == BuildStart \/ Render \/ ReturnFits \/ DecShown \/ DecTitle \/ GiveUp

Spec == InitBuild /\ [][Next]_vars

-----------------------------------------------------------------------------
(* pick_ai_items on its own, over snapshots whose items_ai and items take   *)
(* every JSON type.                                                        *)

\* Values of the items_ai key ("absent" is modelled by leaving the key out).
ItemsAiValues ==
    {JNull, JList(<<>>), JList(<<ItemShort(1)>>),
     JList(<<ItemShort(1), Junk, ItemBare>>), JList(<<Junk>>),
     JStr(<<97, 98, 99>>), JStr(<<>>), JNum(7), JNum(0),
     JDict([k \in {"x"} |-> <<49>>]), JDict(EmptyDict), JBool(TRUE)}

\* Values of the items key.
ItemsValues ==
    {JList(<<>>), JList(<<ItemShort(8)>>),
     JList(<<Junk, ItemShort(8), ItemLong(9)>>), JStr(<<97, 98, 99>>),
     JNum(7), JDict([k \in {"x"} |-> <<49>>])}

PickSnapshots ==
    {EmptyDict}
    \cup {[k \in {"items_ai"} |-> a] : a \in ItemsAiValues}
    \cup {[k \in {"items"} |-> b] : b \in ItemsValues}
    \cup {[k \in {"items_ai", "items"} |-> IF k = "items_ai" THEN a ELSE b] :
            a \in ItemsAiValues, b \in ItemsValues}

InitPick ==
    /\ pc = "pick"
    /\ snapshot \in PickSnapshots
    /\ keyword = <<>>
    /\ top_n = 0
    /\ byte_limit = 0
    /\ site_url = None
    /\ NoBuildLocals
    /\ content = <<>>
    /\ result = None
    /\ NoSend

\* pick_ai_items(snapshot) runs and returns.
Pick ==
    /\ pc = "pick"
    /\ result' = pick_ai_items(snapshot)
    /\ pc' = "picked"
    /\ UNCHANGED <<buildArgs, buildLocals, content, sendVars>>

PickNext == Pick

PickSpec == InitPick /\ [][PickNext]_vars

-----------------------------------------------------------------------------
(* send_wecom_markdown. *)

DEFAULT_TIMEOUT == 15

\* "https://qyapi.example/send?key=k"
WebhookUrl ==
    <<104, 116, 116, 112, 115, 58, 47, 47, 113, 121, 97, 112, 105, 46, 101,
      120, 97, 109, 112, 108, 101, 47, 115, 101, 110, 100, 63, 107, 101, 121,
      61, 107>>

\* The contents handed to the call: an empty one and a short digest.
SendContents == {<<>>, DefaultKeyword \o <<10>> \o HeaderTitle}

\* A response body that is not JSON (resp.json() raises).
NotJson == [t |-> "notjson", v |-> 0]

\* "ok"
OkMsg == <<111, 107>>

\* Values the errcode field of the reply takes.
ErrcodeValues ==
    {JNum(0), JNum(-1), JNum(40058), JFloat(0), JFloat(5), JFloat(15),
     JStr(<<48>>), JStr(<<32, 52, 50, 32>>), JStr(<<97, 98, 99>>),
     JStr(<<>>), JNull, JBool(FALSE), JBool(TRUE), JList(<<>>)}

\* Reply bodies: a status record with or without errcode, a JSON list, and
\* a body that is not JSON.
Bodies ==
    {JDict([k \in {"errcode", "errmsg"} |->
              IF k = "errcode" THEN e ELSE JStr(OkMsg)]) : e \in ErrcodeValues}
    \cup {JDict([k \in {"errmsg"} |-> JStr(OkMsg)]), JDict(EmptyDict),
          JList(<<>>), NotJson}

Statuses == {200, 404, 500}

Responses == [status : Statuses, body : Bodies]

\* Exceptions requests.post itself raises (no response arrives).
TransportErrors == {"ConnectionError", "Timeout"}

\* resp.raise_for_status() raises HTTPError
RaisesForStatus(status) == 400 <= status /\ status < 600

\* int(s) of a str: optional surrounding whitespace, an optional sign and
\* decimal digits; [ok |-> FALSE] is ValueError.
IntOfStr(s) ==
    LET t == Strip(s)
        signed == t # <<>> /\ t[1] \in {43, 45}
        digits == IF signed THEN Tail(t) ELSE t
    IN  IF digits # <<>> /\ \A i \in 1..Len(digits) : IsDigit(digits[i])
        THEN [ok |-> TRUE,
              v |-> (IF signed /\ t[1] = 45 THEN -1 ELSE 1)
                    * DigitsAt(digits, 1, Len(digits))]
        ELSE [ok |-> FALSE, err |-> "ValueError"]

\* int(x): [ok |-> TRUE, v |-> n], or the exception it raises.
PyInt(x) ==
    CASE x.t = "num" -> [ok |-> TRUE, v |-> x.v]
      [] x.t = "bool" -> [ok |-> TRUE, v |-> IF x.v THEN 1 ELSE 0]
      [] x.t = "float" ->
            [ok |-> TRUE,
             v |-> IF x.v < 0 THEN -((-x.v) \div 10) ELSE x.v \div 10]
      [] x.t = "str" -> IntOfStr(x.v)
      [] OTHER -> [ok |-> FALSE, err |-> "TypeError"]

\* data.get("errcode", -1)
GetErrcode(d) == IF "errcode" \in DOMAIN d THEN d["errcode"] ELSE JNum(-1)

\* {"msgtype": "markdown", "markdown": {"content": content}}
Payload(c) == [msgtype |-> "markdown", markdown |-> [content |-> c]]

InitSend ==
    /\ pc = "send"
    /\ snapshot = EmptyDict
    /\ keyword = <<>>
    /\ top_n = 0
    /\ byte_limit = 0
    /\ site_url = None
    /\ NoBuildLocals
    /\ content \in SendContents
    /\ result = None
    /\ webhook_url = WebhookUrl
    /\ timeout \in {DEFAULT_TIMEOUT, 1}
    /\ resp = NoResponse
    /\ data = JNull
    /\ posts = <<>>
    /\ raised = NoException

\* Lines 117-118: the POST is issued and a response arrives.
Post ==
    /\ pc = "send"
    /\ posts' = Append(posts, [url |-> webhook_url, json |-> Payload(content),
                               timeout |-> timeout])
    /\ \E r \in Responses : resp' = r
    /\ pc' = "posted"
    /\ UNCHANGED <<buildArgs, buildLocals, content, result, webhook_url,
                   timeout, data, raised>>

\* Line 118: the POST is issued and requests.post raises.
PostFails ==
    /\ pc = "send"
    /\ posts' = Append(posts, [url |-> webhook_url, json |-> Payload(content),
                               timeout |-> timeout])
    /\ \E e \in TransportErrors : raised' = [type |-> e, arg |-> JNull]
    /\ pc' = "raised"
    /\ UNCHANGED <<buildArgs, buildLocals, content, result, webhook_url,
                   timeout, resp, data>>

\* Line 119: raise_for_status raises.
HttpError ==
    /\ pc = "posted"
    /\ RaisesForStatus(resp.status)
    /\ raised' = [type |-> "HTTPError", arg |-> JNum(resp.status)]
    /\ pc' = "raised"
    /\ UNCHANGED <<buildArgs, buildLocals, content, result, webhook_url,
                   timeout, resp, data, posts>>

\* Lines 119-120: raise_for_status passes and resp.json() parses the body.
ParseJson ==
    /\ pc = "posted"
    /\ ~RaisesForStatus(resp.status)
    /\ resp.body # NotJson
    /\ data' = resp.body
    /\ pc' = "parsed"
    /\ UNCHANGED <<buildArgs, buildLocals, content, result, webhook_url,
                   timeout, resp, posts, raised>>

\* Line 120: resp.json() raises on a body that is not JSON.
JsonError ==
    /\ pc = "posted"
    /\ ~RaisesForStatus(resp.status)
    /\ resp.body = NotJson
    /\ raised' = [type |-> "JSONDecodeError", arg |-> JNull]
    /\ pc' = "raised"
    /\ UNCHANGED <<buildArgs, buildLocals, content, result, webhook_url,
                   timeout, resp, data, posts>>

\* Line 121: data.get fails (data is no dict) or int() raises.
ErrcodeError ==
    /\ pc = "parsed"
    /\ \/ /\ ~IsDict(data)
          /\ raised' = [type |-> "AttributeError", arg |-> JNull]
       \/ /\ IsDict(data)
          /\ ~PyInt(GetErrcode(data.v)).ok
          /\ raised' = [type |-> PyInt(GetErrcode(data.v)).err, arg |-> JNull]
    /\ pc' = "raised"
    /\ UNCHANGED <<buildArgs, buildLocals, content, result, webhook_url,
                   timeout, resp, data, posts>>

\* Lines 121-122: the errcode converts to a nonzero int.
Reject ==
    /\ pc = "parsed"
    /\ IsDict(data)
    /\ PyInt(GetErrcode(data.v)).ok
    /\ PyInt(GetErrcode(data.v)).v # 0
    /\ raised' = [type |-> "RuntimeError", arg |-> data]
    /\ pc' = "raised"
    /\ UNCHANGED <<buildArgs, buildLocals, content, result, webhook_url,
                   timeout, resp, data, posts>>

\* Lines 121-123: the errcode converts to 0 and data is returned.
ReturnData ==
    /\ pc = "parsed"
    /\ IsDict(data)
    /\ PyInt(GetErrcode(data.v)).ok
    /\ PyInt(GetErrcode(data.v)).v = 0
    /\ result' = data
    /\ pc' = "returned"
    /\ UNCHANGED <<buildArgs, buildLocals, content, webhook_url, timeout,
                   resp, data, posts, raised>>

SendNext ==
    \/ Post \/ PostFails \/ HttpError \/ ParseJson \/ JsonError
    \/ ErrcodeError \/ Reject \/ ReturnData

SendSpec == InitSend /\ [][SendNext]_vars

-----------------------------------------------------------------------------
(* Reading a rendered digest back. *)

\* s.split("\n")
RECURSIVE SplitLines(_)
SplitLines(s) ==
    LET nl == {i \in 1..Len(s) : s[i] = 10}
    IN  IF nl = {} THEN <<s>>
        ELSE LET k == CHOOSE i \in nl : \A j \in nl : i <= j
             IN  <<SubSeq(s, 1, k - 1)>> \o SplitLines(SubSeq(s, k + 1, Len(s)))

StartsWith(s, prefix) ==
    Len(s) >= Len(prefix) /\ SubSeq(s, 1, Len(prefix)) = prefix

\* How many decimal digits s starts with.
RECURSIVE LeadingDigits(_)
LeadingDigits(s) ==
    IF s # <<>> /\ IsDigit(Head(s)) THEN 1 + LeadingDigits(Tail(s)) ELSE 0

\* The n of a list entry line "n. ...", 0 for any other line.
EntryNumber(line) ==
    LET k == LeadingDigits(line)
    IN  IF k > 0 /\ Len(line) >= k + 2 /\ line[k + 1] = 46 /\ line[k + 2] = 32
        THEN DigitsAt(line, 1, k)
        ELSE 0

IsEntryLine(line) == EntryNumber(line) > 0
IsRemarkLine(line) == StartsWith(line, RemarkPrefix)
IsCountLine(line) == StartsWith(line, CountPrefix)

\* The dict-typed entries of a JSON list, in order.
IsDictEntry(e) == e.t = "dict"
DictTyped(x) == SelectSeq(x.v, IsDictEntry)

Has(snap, k) == k \in DOMAIN snap
HasList(snap, k) == Has(snap, k) /\ snap[k].t = "list"

\* floor of shown: 1 if total > 0, else 0
ShownFloor == IF total > 0 THEN 1 ELSE 0

\* min(max(top_n, 0), total), or min(total, 3) when that is zero
PolicyShown ==
    LET clipped == IF top_n < 0 THEN 0 ELSE IF top_n > total THEN total
                   ELSE top_n
    IN  IF clipped # 0 THEN clipped ELSE IF total < 3 THEN total ELSE 3

-----------------------------------------------------------------------------
(* The claims. *)

\* C1: build_digest_markdown returns (content, shown) such that the UTF-8
\* length of content is <= byte_limit, or the shrink budget is exhausted
\* (shown at its floor and title_limit no longer > 20); shown >= 1 whenever
\* total > 0.
C1_FitsOrExhausted ==
    pc = "done" =>
        /\ \/ Utf8Len(result[1]) <= byte_limit
           \/ result[2] = ShownFloor /\ ~(title_limit > 20)
        /\ total > 0 => result[2] >= 1

\* C1: a run over two or more items that exhausts the budget and returns an
\* oversized best-effort content, under a positive byte_limit.
C1_Witness ==
    /\ pc = "done"
    /\ total >= 2
    /\ byte_limit > 0
    /\ retries > 7
    /\ Utf8Len(result[1]) > byte_limit

\* C2: if items_ai is present and is a sequence, even an empty one,
\* pick_ai_items returns exactly the dict-typed entries of items_ai and never
\* consults items.
C2_ItemsAiExclusive ==
    pc = "picked" /\ HasList(snapshot, "items_ai") =>
        result = DictTyped(snapshot["items_ai"])

\* C3: if items_ai is absent or is not a sequence, pick_ai_items falls back
\* to items: the dict-typed entries of items when items is a sequence, the
\* empty sequence otherwise.
C3_FallsBackToItems ==
    pc = "picked" /\ ~HasList(snapshot, "items_ai") =>
        result = IF HasList(snapshot, "items") THEN DictTyped(snapshot["items"])
                 ELSE <<>>

\* C4: if items_ai is a non-empty sequence, pick_ai_items returns exactly the
\* dict-typed entries of items_ai in order and ignores items.
C4_NonEmptyItemsAiWins ==
    pc = "picked" /\ HasList(snapshot, "items_ai")
        /\ snapshot["items_ai"].v # <<>> =>
        result = DictTyped(snapshot["items_ai"])

\* C4: a non-empty items_ai with a non-record entry was picked from, while
\* items holds other records.
C4_Witness ==
    /\ pc = "picked"
    /\ HasList(snapshot, "items_ai")
    /\ Len(snapshot["items_ai"].v) = 3
    /\ Len(result) = 2
    /\ HasList(snapshot, "items")
    /\ DictTyped(snapshot["items"]) # <<>>
    /\ result # DictTyped(snapshot["items"])

\* The text of s before its first newline.
FirstLine(s) == SplitLines(s)[1]

\* C5: for every non-empty keyword, the first line of the returned content
\* is exactly the keyword.
C5_KeywordIsFirstLine ==
    pc = "done" /\ keyword # <<>> => FirstLine(result[1]) = keyword

\* C6: every iteration that does not return decreases exactly one of shown
\* (by 1) or title_limit (by 4) and leaves the other alone, at most
\* (initial shown - floor) + 7 retries happen before the return.
C6_LoopTerminates ==
    /\ [](pc # "build" => retries <= (PolicyShown - ShownFloor) + 7)
    /\ [][pc = "check" /\ pc' # "done" =>
            /\ retries' = retries + 1
            /\ \/ shown' = shown - 1 /\ title_limit' = title_limit
               \/ shown' = shown /\ title_limit' = title_limit - 4]_vars

\* C6: a run under a byte_limit nothing meets that used every retry.
C6_Witness ==
    /\ pc = "done"
    /\ byte_limit <= 0
    /\ PolicyShown >= 3
    /\ retries = (PolicyShown - ShownFloor) + 7

\* A 2xx status.
IsSuccessStatus(st) == 200 <= st /\ st < 300

\* The errcode of the reply record is the number zero.
ErrcodeIsZero(body) ==
    /\ "errcode" \in DOMAIN body.v
    /\ body.v["errcode"] \in {JNum(0), JFloat(0)}

\* C7: send_wecom_markdown issues exactly one POST and never retries; it
\* returns the parsed record only when the HTTP status is a success and the
\* errcode is exactly 0; a non-success status fails before the body is
\* examined; a success status whose errcode is nonzero or missing fails as a
\* rejected delivery (RuntimeError) carrying the full response body.
C7_SendContract ==
    /\ Len(posts) <= 1
    /\ pc # "send" => Len(posts) = 1
    /\ pc = "returned" =>
          /\ IsSuccessStatus(resp.status)
          /\ IsDict(resp.body)
          /\ ErrcodeIsZero(resp.body)
          /\ result = resp.body
    /\ pc \in {"raised", "returned"} /\ resp # NoResponse
          /\ ~IsSuccessStatus(resp.status) =>
          /\ pc = "raised"
          /\ raised.type = "HTTPError"
          /\ data = JNull
    /\ pc \in {"raised", "returned"} /\ resp # NoResponse
          /\ IsSuccessStatus(resp.status) /\ IsDict(resp.body)
          /\ ~ErrcodeIsZero(resp.body) =>
          /\ pc = "raised"
          /\ raised.type = "RuntimeError"
          /\ raised.arg = resp.body

\* C8: when the first candidate fits, the returned shown is
\* min(max(top_n, 0), total), or min(total, 3) when that is zero; the
\* returned shown never exceeds that value.
C8_InitialShownPolicy ==
    pc = "done" =>
        /\ retries = 0 => result[2] = PolicyShown
        /\ result[2] <= PolicyShown

\* C8: top_n <= 0 over more than three items, first candidate returned.
C8_Witness ==
    /\ pc = "done"
    /\ top_n <= 0
    /\ total > 3
    /\ retries = 0
    /\ result[2] = 3

\* C9: the returned content lists exactly shown entries numbered 1..shown,
\* the first shown selected items in order; it ends with the omitted-items
\* remark iff total > shown and the remark states total - shown; the header
\* count is total; when total = 0 there is no entry and no remark.
C9_ContentMatchesShown ==
    pc = "done" =>
        LET ls == SplitLines(result[1])
            sh == result[2]
            entries == SelectSeq(ls, IsEntryLine)
            remarks == SelectSeq(ls, IsRemarkLine)
            counts == SelectSeq(ls, IsCountLine)
        IN  /\ Len(entries) = sh
            /\ sh <= total
            /\ \A i \in 1..Len(entries) :
                  /\ EntryNumber(entries[i]) = i
                  /\ entries[i] = ItemBlock(items[i].v, i, title_limit)[1]
            /\ IF total > sh
               THEN /\ remarks = <<RemarkPrefix \o NatToStr(total - sh)
                                      \o RemarkSuffix>>
                    /\ ls[Len(ls)] = remarks[1]
               ELSE remarks = <<>>
            /\ counts = <<CountPrefix \o NatToStr(total)>>
            /\ total = 0 => sh = 0 /\ entries = <<>> /\ remarks = <<>>

\* C9: a digest returned after shown was reduced, with two or more entries
\* and a remark.
C9_Witness ==
    /\ pc = "done"
    /\ retries > 0
    /\ result[2] >= 2
    /\ total > PolicyShown
    /\ PolicyShown > result[2]

\* C10: in the loop, title_limit < 46 implies shown is at its floor; shown
\* never changes once title_limit was decremented; title_limit only takes
\* the values 46, 42, 38, 34, 30, 26, 22, 18.
C10_CountBeforeTitles ==
    /\ [](pc # "build" =>
            /\ title_limit < 46 => shown = ShownFloor
            /\ title_limit \in {46, 42, 38, 34, 30, 26, 22, 18})
    /\ [][pc # "build" /\ title_limit < 46 => shown' = shown]_vars

\* C10: shown was reduced from 3 or more to its floor, then titles were
\* shortened.
C10_Witness ==
    /\ pc = "check"
    /\ PolicyShown >= 3
    /\ shown = 1
    /\ title_limit = 34

=============================================================================
